---- MODULE Spec2Model ----
(***************************************************************************)
(* Model of the chunk processor of rdedup (lib/src/chunk_processor.rs):    *)
(* a pool of workers running ChunkProcessor::run over one shared work      *)
(* queue and one shared, path-addressed chunk store.                       *)
(***************************************************************************)
EXTENDS Integers, Sequences, FiniteSets, TLC

\* ------------------------------------------------------------------ bounds
NumWorkers == 2
NumGens == 2
NumPayloads == 2
MaxMsgs == 2

Workers == 1..NumWorkers
Payloads == 1..NumPayloads
Chans == 1..MaxMsgs

\* ------------------------------------------------------------ configuration
\* The generation list handed to ChunkProcessor::new (self.generations).
VARIABLE generations

\* The generation lists a caller can hand to the constructor, oldest
\* generation first, the empty one included.
GenerationLists == {[i \in 1..n |-> i] : n \in 0..NumGens}

\* Option::None, as returned by last() on an empty list.
None == <<>>

\* gen_strings: one name per generation, in list order.
gen_strings == [i \in 1..Len(generations) |-> <<"gen", generations[i]>>]

\* gen_strings.last(), which run() unwraps into last_gen_str.
last_gen_str ==
  IF Len(gen_strings) = 0 THEN None ELSE gen_strings[Len(gen_strings)]

GenStrs == {gen_strings[i] : i \in 1..Len(gen_strings)}

\* Mutant of ScanOrder: only the current generation is looked at.
ScanOrderCurrentOnly == <<last_gen_str>>

\* Mutant of ScanOrder: newest to oldest, without the trailing second look
\* at the current generation.
ScanOrderNoRecheck ==
  [i \in 1..Len(gen_strings) |-> gen_strings[Len(gen_strings) + 1 - i]]

\* gen_strings.iter().rev().chain([&last_gen_str]): newest to oldest, then
\* the current generation once more.
ScanOrder ==
  [i \in 1..(Len(gen_strings) + 1) |->
     IF i <= Len(gen_strings) THEN gen_strings[Len(gen_strings) + 1 - i]
     ELSE last_gen_str]

\* ------------------------------------------------------------ collaborators
\* DataType: the two policies should_compress / should_encrypt.
DataTypes == [compress : BOOLEAN, encrypt : BOOLEAN]

should_compress(dt) == dt.compress

should_encrypt(dt) == dt.encrypt

\* SGData: the payload bytes together with the transforms applied to them,
\* in the order they were applied.
RawSG(p) == [data |-> p, layers |-> <<>>]

\* hasher.calculate_digest: a function of the bytes of the buffer, so a
\* transformed buffer hashes differently from the raw one.
calculate_digest(sg) == <<"sha", sg.data, sg.layers>>

\* compressor.compress(sg)
compress(sg) == [sg EXCEPT !.layers = Append(@, <<"z">>)]

\* encrypter.encrypt(sg, &digest.0)
encrypt(sg, digest) == [sg EXCEPT !.layers = Append(@, <<"enc", digest>>)]

\* repo.chunk_path_by_digest(digest, gen_str) and chunk_rel_path_by_digest:
\* a pure function of the digest and the generation.
chunk_path_by_digest(digest, gen_str) == [gen |-> gen_str, digest |-> digest]

\* The form a pre-existing chunk was stored in by an earlier run.
StoredForm(p) ==
  encrypt(compress(RawSG(p)), calculate_digest(RawSG(p)))

\* ------------------------------------------------------------------- state
VARIABLES
  queue,          \* two_lock_queue: the Messages not yet received
  closed,         \* every sender of the queue has been dropped
  sent,           \* the Messages created by the producers so far, in order
  rxAlive,        \* per response channel: the receiving end still exists
  responses,      \* per response channel: the (sg_id, digest) pairs sent
  store,          \* the chunk files: path |-> content
  pendingWrites,  \* writes handed to the I/O backend and not yet performed
  pc,             \* per worker: position in new() and run()
  input,          \* per worker: the Message being processed
  digest,         \* per worker: local `digest`
  found,          \* per worker: local `found`
  scanIdx,        \* per worker: position of the for loop over the scan order
  chunk_path,     \* per worker: the path that was found to exist
  sg,             \* per worker: local `sg` (the buffer, as transformed so far)
  fatal,          \* per worker: the panic that ended it, or "none"
  ops,            \* per Message: the storage operations issued for it
  store0,         \* the store as it was before the workers started
  ioFault         \* a rename failed although its source existed

vars == <<generations, queue, closed, sent, rxAlive, responses, store, pendingWrites,
          pc, input, digest, found, scanIdx, chunk_path, sg, fatal, ops,
          store0, ioFault>>

locals == <<input, digest, found, scanIdx, chunk_path, sg>>

NoMsg == [sg_id |-> -1, sg |-> RawSG(0), data_type |-> [compress |-> FALSE, encrypt |-> FALSE],
          response_tx |-> 0]

NoDigest == <<>>

NoPath == [gen |-> <<>>, digest |-> NoDigest]

NoOps == [recvs |-> 0, stored |-> FALSE, scan |-> "none", renames |-> 0,
          renameOk |-> 0, recheck |-> "none", writes |-> 0, written |-> 0]

\* chunk_path.exists() / read_metadata(path).is_ok()
Exists(st, path) == \E c \in st : c.path = path

ChunkAt(st, path) == CHOOSE c \in st : c.path = path

\* A chunk of the digest is stored in some generation of the list.
StoredSomewhere(st, d) ==
  \E g \in GenStrs : Exists(st, chunk_path_by_digest(d, g))

\* fs rename: the source file replaces whatever is at the destination.
RenameEffect(st, src, dst) ==
  {c \in st : c.path # src /\ c.path # dst}
    \cup {[path |-> dst, sg |-> ChunkAt(st, src).sg]}

\* write_checked_idempotent performed by the backend: a file that is already
\* there is left as it is.
WriteEffect(st, path, buf) ==
  IF Exists(st, path) THEN st ELSE st \cup {[path |-> path, sg |-> buf]}

\* The stores a run can start from: every digest in at most one generation.
InitStores ==
  {{[path |-> chunk_path_by_digest(calculate_digest(RawSG(p)), f[p]),
     sg |-> StoredForm(p)] : p \in {q \in Payloads : f[q] # None}}
     : f \in [Payloads -> GenStrs \cup {None}]}

Init ==
  /\ generations \in GenerationLists
  /\ queue = <<>>
  /\ closed = FALSE
  /\ sent = <<>>
  /\ rxAlive = [c \in Chans |-> TRUE]
  /\ responses = [c \in Chans |-> <<>>]
  /\ store \in InitStores
  /\ store0 = store
  /\ pendingWrites = {}
  /\ pc = [w \in Workers |-> "new"]
  /\ input = [w \in Workers |-> NoMsg]
  /\ digest = [w \in Workers |-> NoDigest]
  /\ found = [w \in Workers |-> FALSE]
  /\ scanIdx = [w \in Workers |-> 0]
  /\ chunk_path = [w \in Workers |-> NoPath]
  /\ sg = [w \in Workers |-> RawSG(0)]
  /\ fatal = [w \in Workers |-> "none"]
  /\ ops = [c \in Chans |-> NoOps]
  /\ ioFault = FALSE

\* ------------------------------------------------------------- environment
\* The Message a producer builds: the next sequence id, the payload, its data
\* type, and the sending end of the channel its response is awaited on.
NewMessage(p, dt) ==
  [sg_id |-> Len(sent), sg |-> RawSG(p), data_type |-> dt,
   response_tx |-> Len(sent) + 1]

\* A producer hands a Message to the queue.
Send(p, dt) ==
  /\ ~closed
  /\ Len(sent) < MaxMsgs
  /\ queue' = Append(queue, NewMessage(p, dt))
  /\ sent' = Append(sent, NewMessage(p, dt))
  /\ UNCHANGED <<closed, rxAlive, responses, store, pendingWrites, pc, locals,
                 fatal, ops, store0, ioFault, generations>>

\* The last sender of the queue is dropped.
CloseQueue ==
  /\ ~closed
  /\ closed' = TRUE
  /\ UNCHANGED <<queue, sent, rxAlive, responses, store, pendingWrites, pc,
                 locals, fatal, ops, store0, ioFault, generations>>

\* The receiving end of a response channel is dropped.
DropReceiver(c) ==
  /\ rxAlive[c]
  /\ c <= Len(sent)
  /\ responses[c] = <<>>
  /\ rxAlive' = [rxAlive EXCEPT ![c] = FALSE]
  /\ UNCHANGED <<queue, closed, sent, responses, store, pendingWrites, pc,
                 locals, fatal, ops, store0, ioFault, generations>>

\* ------------------------------------------------------- ChunkProcessor::run
Msg(w) == input[w].response_tx

\* Mutant of dst_path: the destination is taken from the first generation.
dst_path_first(d) == chunk_path_by_digest(d, gen_strings[1])

\* dst_path: the found chunk's path in the current generation.
dst_path(d) == chunk_path_by_digest(d, gen_strings[Len(gen_strings)])

\* Mutant of write_path: the path is taken from the first generation.
write_path_first(d) == chunk_path_by_digest(d, gen_strings[1])

\* The path handed to write_checked_idempotent.
write_path(d) == chunk_path_by_digest(d, last_gen_str)

\* Mutant of Digest: the buffer is hashed after it was compressed.
DigestOfTransformed(m) ==
  calculate_digest(IF should_compress(m.data_type) THEN compress(m.sg) ELSE m.sg)

\* Digest(self.hasher.calculate_digest(&sg)): the hash of the payload as it
\* was received.
Digest(m) == calculate_digest(m.sg)

\* Mutant of RecheckOk: the result of read_metadata is not looked at.
RecheckOkIgnored(w) == TRUE

\* Mutant of RecheckOk: the metadata of the source path is read.
RecheckOkSource(w) == Exists(store, chunk_path[w])

\* read_metadata(dst_path).wait() is not an error.
RecheckOk(w) == Exists(store, dst_path(digest[w]))

\* Mutant of Response: the digest is taken from the buffer as it is written.
ResponseOfWritten(w) == <<input[w].sg_id, calculate_digest(sg[w])>>

\* The pair sent on response_tx.
Response(w) == <<input[w].sg_id, digest[w]>>

\* Mutant of New: the constructor does not look at the length of the list.
NewUnchecked(w) ==
  /\ pc[w] = "new"
  /\ pc' = [pc EXCEPT ![w] = "run"]
  /\ UNCHANGED <<queue, closed, sent, rxAlive, responses, store,
                 pendingWrites, locals, fatal, ops, store0, ioFault,
                 generations>>

\* ChunkProcessor::new: assert!(generations.len() >= 1), then the processor
\* is built and handed to its thread.
New(w) ==
  /\ pc[w] = "new"
  /\ IF Len(generations) >= 1
     THEN /\ pc' = [pc EXCEPT ![w] = "run"]
          /\ fatal' = fatal
     ELSE /\ pc' = [pc EXCEPT ![w] = "panic"]
          /\ fatal' = [fatal EXCEPT ![w] = "assert"]
  /\ UNCHANGED <<queue, closed, sent, rxAlive, responses, store,
                 pendingWrites, locals, ops, store0, ioFault, generations>>

\* The start of run(): gen_strings is built and gen_strings.last() is
\* unwrapped, which panics on an empty list; then the loop is entered.
RunStart(w) ==
  /\ pc[w] = "run"
  /\ IF last_gen_str = None
     THEN /\ pc' = [pc EXCEPT ![w] = "panic"]
          /\ fatal' = [fatal EXCEPT ![w] = "unwrap"]
     ELSE /\ pc' = [pc EXCEPT ![w] = "rx"]
          /\ fatal' = fatal
  /\ UNCHANGED <<queue, closed, sent, rxAlive, responses, store,
                 pendingWrites, locals, ops, store0, ioFault, generations>>

\* self.rx.recv() returns a Message: destructure it and hash the payload.
Recv(w) ==
  /\ pc[w] = "rx"
  /\ queue # <<>>
  /\ input' = [input EXCEPT ![w] = Head(queue)]
  /\ queue' = Tail(queue)
  /\ sg' = [sg EXCEPT ![w] = Head(queue).sg]
  /\ digest' = [digest EXCEPT ![w] = Digest(Head(queue))]
  /\ found' = [found EXCEPT ![w] = FALSE]
  /\ scanIdx' = [scanIdx EXCEPT ![w] = 1]
  /\ pc' = [pc EXCEPT ![w] = "scan"]
  /\ ops' = [ops EXCEPT ![Head(queue).response_tx].recvs = @ + 1,
                        ![Head(queue).response_tx].stored =
                           StoredSomewhere(store, Digest(Head(queue)))]
  /\ UNCHANGED <<closed, sent, rxAlive, responses, store, pendingWrites,
                 chunk_path, fatal, store0, ioFault, generations>>

\* Mutant of RecvClosed: the worker returns as soon as the queue is empty.
RecvClosedWhenEmpty(w) ==
  /\ pc[w] = "rx"
  /\ queue = <<>>
  /\ pc' = [pc EXCEPT ![w] = "done"]
  /\ UNCHANGED <<queue, closed, sent, rxAlive, responses, store,
                 pendingWrites, locals, fatal, ops, store0, ioFault, generations>>

\* self.rx.recv() reports the queue closed and drained: return.
RecvClosed(w) ==
  /\ pc[w] = "rx"
  /\ queue = <<>>
  /\ closed
  /\ pc' = [pc EXCEPT ![w] = "done"]
  /\ UNCHANGED <<queue, closed, sent, rxAlive, responses, store,
                 pendingWrites, locals, fatal, ops, store0, ioFault, generations>>

\* One iteration of the for loop: chunk_path.exists() on the next generation
\* of the scan order. A hit sets found and leaves the loop, towards the
\* rename when the generation is not the current one; the loop running out
\* leaves found false.
Probe(w) ==
  /\ pc[w] = "scan"
  /\ LET path == chunk_path_by_digest(digest[w], ScanOrder[scanIdx[w]])
     IN IF Exists(store, path)
        THEN /\ found' = [found EXCEPT ![w] = TRUE]
             /\ chunk_path' = [chunk_path EXCEPT ![w] = path]
             /\ scanIdx' = scanIdx
             /\ IF ScanOrder[scanIdx[w]] = last_gen_str
                THEN /\ pc' = [pc EXCEPT ![w] = "respond"]
                     /\ ops' = [ops EXCEPT ![Msg(w)].scan = "current"]
                ELSE /\ pc' = [pc EXCEPT ![w] = "rename"]
                     /\ ops' = [ops EXCEPT ![Msg(w)].scan = "older"]
        ELSE /\ UNCHANGED <<found, chunk_path>>
             /\ IF scanIdx[w] < Len(ScanOrder)
                THEN /\ scanIdx' = [scanIdx EXCEPT ![w] = @ + 1]
                     /\ pc' = pc
                     /\ ops' = ops
                ELSE /\ scanIdx' = scanIdx
                     /\ pc' = [pc EXCEPT ![w] = "compress"]
                     /\ ops' = [ops EXCEPT ![Msg(w)].scan = "missing"]
  /\ UNCHANGED <<queue, closed, sent, rxAlive, responses, store,
                 pendingWrites, input, digest, sg, fatal, store0, ioFault, generations>>

\* Mutant of Rename: the migration removes the source file and hands the
\* writing of the destination to the backend.
RenameAsDeleteAndWrite(w) ==
  /\ pc[w] = "rename"
  /\ IF Exists(store, chunk_path[w])
     THEN /\ store' = store \ {ChunkAt(store, chunk_path[w])}
          /\ pendingWrites' = pendingWrites \cup
               {[msg |-> Msg(w),
                 path |-> chunk_path_by_digest(digest[w], last_gen_str),
                 sg |-> ChunkAt(store, chunk_path[w]).sg]}
          /\ ops' = [ops EXCEPT ![Msg(w)].renames = @ + 1,
                                ![Msg(w)].renameOk = @ + 1]
          /\ pc' = [pc EXCEPT ![w] = "respond"]
     ELSE /\ store' = store
          /\ pendingWrites' = pendingWrites
          /\ ops' = [ops EXCEPT ![Msg(w)].renames = @ + 1]
          /\ pc' = [pc EXCEPT ![w] = "recheck"]
  /\ UNCHANGED <<queue, closed, sent, rxAlive, responses, locals, fatal,
                 store0, ioFault, generations>>

\* Mutant of Rename: after the migration the loop is left without `found`
\* being honoured, so the request goes on into the branch of a new chunk.
RenameFallsThrough(w) ==
  /\ pc[w] = "rename"
  /\ IF Exists(store, chunk_path[w])
     THEN /\ store' = RenameEffect(store, chunk_path[w],
                                   chunk_path_by_digest(digest[w], last_gen_str))
          /\ ops' = [ops EXCEPT ![Msg(w)].renames = @ + 1,
                                ![Msg(w)].renameOk = @ + 1]
          /\ pc' = [pc EXCEPT ![w] = "compress"]
     ELSE /\ store' = store
          /\ ops' = [ops EXCEPT ![Msg(w)].renames = @ + 1]
          /\ pc' = [pc EXCEPT ![w] = "recheck"]
  /\ UNCHANGED <<queue, closed, sent, rxAlive, responses, pendingWrites,
                 locals, fatal, store0, ioFault, generations>>

\* self.aio.rename(chunk_path, dst_path).wait(): Ok moves the file; the
\* rename fails when the source is no longer there.
Rename(w) ==
  /\ pc[w] = "rename"
  /\ IF Exists(store, chunk_path[w])
     THEN /\ store' = RenameEffect(store, chunk_path[w], dst_path(digest[w]))
          /\ ops' = [ops EXCEPT ![Msg(w)].renames = @ + 1,
                                ![Msg(w)].renameOk = @ + 1]
          /\ pc' = [pc EXCEPT ![w] = "respond"]
     ELSE /\ store' = store
          /\ ops' = [ops EXCEPT ![Msg(w)].renames = @ + 1]
          /\ pc' = [pc EXCEPT ![w] = "recheck"]
  /\ UNCHANGED <<queue, closed, sent, rxAlive, responses, pendingWrites,
                 locals, fatal, store0, ioFault, generations>>

\* The rename returns an error although the source exists (a storage fault).
RenameFault(w) ==
  /\ pc[w] = "rename"
  /\ Exists(store, chunk_path[w])
  /\ ops' = [ops EXCEPT ![Msg(w)].renames = @ + 1]
  /\ pc' = [pc EXCEPT ![w] = "recheck"]
  /\ ioFault' = TRUE
  /\ UNCHANGED <<queue, closed, sent, rxAlive, responses, store,
                 pendingWrites, locals, fatal, store0, generations>>

\* Mutant of Recheck: when the destination is not there either, the request
\* is given up and the loop goes on to the next Message.
RecheckSkipsRequest(w) ==
  /\ pc[w] = "recheck"
  /\ IF RecheckOk(w)
     THEN /\ pc' = [pc EXCEPT ![w] = "respond"]
          /\ ops' = [ops EXCEPT ![Msg(w)].recheck = "ok"]
          /\ UNCHANGED locals
     ELSE /\ pc' = [pc EXCEPT ![w] = "rx"]
          /\ ops' = [ops EXCEPT ![Msg(w)].recheck = "err"]
          /\ input' = [input EXCEPT ![w] = NoMsg]
          /\ digest' = [digest EXCEPT ![w] = NoDigest]
          /\ found' = [found EXCEPT ![w] = FALSE]
          /\ scanIdx' = [scanIdx EXCEPT ![w] = 0]
          /\ chunk_path' = [chunk_path EXCEPT ![w] = NoPath]
          /\ sg' = [sg EXCEPT ![w] = RawSG(0)]
  /\ UNCHANGED <<queue, closed, sent, rxAlive, responses, store,
                 pendingWrites, fatal, store0, ioFault, generations>>

\* unwrap_or_else of the failed rename: read_metadata(dst_path).wait(); an
\* error panics with "rename failed", otherwise the failure is dropped.
Recheck(w) ==
  /\ pc[w] = "recheck"
  /\ IF RecheckOk(w)
     THEN /\ pc' = [pc EXCEPT ![w] = "respond"]
          /\ ops' = [ops EXCEPT ![Msg(w)].recheck = "ok"]
          /\ fatal' = fatal
     ELSE /\ pc' = [pc EXCEPT ![w] = "panic"]
          /\ ops' = [ops EXCEPT ![Msg(w)].recheck = "err"]
          /\ fatal' = [fatal EXCEPT ![w] = "rename failed"]
  /\ UNCHANGED <<queue, closed, sent, rxAlive, responses, store,
                 pendingWrites, locals, store0, ioFault, generations>>

\* if !found: compress the buffer iff data_type.should_compress().
Compress(w) ==
  /\ pc[w] = "compress"
  /\ sg' = [sg EXCEPT ![w] =
              IF should_compress(input[w].data_type) THEN compress(@) ELSE @]
  /\ pc' = [pc EXCEPT ![w] = "encrypt"]
  /\ UNCHANGED <<queue, closed, sent, rxAlive, responses, store,
                 pendingWrites, input, digest, found, scanIdx, chunk_path,
                 fatal, ops, store0, ioFault, generations>>

\* Mutant of CompressFail: the buffer is handed to the backend before the
\* result of the compression is unwrapped.
CompressFailAfterWrite(w) ==
  /\ pc[w] = "compress"
  /\ should_compress(input[w].data_type)
  /\ pendingWrites' = pendingWrites \cup
       {[msg |-> Msg(w), path |-> chunk_path_by_digest(digest[w], last_gen_str),
         sg |-> sg[w]]}
  /\ pc' = [pc EXCEPT ![w] = "panic"]
  /\ fatal' = [fatal EXCEPT ![w] = "compress"]
  /\ UNCHANGED <<queue, closed, sent, rxAlive, responses, store, locals, ops,
                 store0, ioFault, generations>>

\* compress(sg) returns Err: unwrap() panics.
CompressFail(w) ==
  /\ pc[w] = "compress"
  /\ should_compress(input[w].data_type)
  /\ pc' = [pc EXCEPT ![w] = "panic"]
  /\ fatal' = [fatal EXCEPT ![w] = "compress"]
  /\ UNCHANGED <<queue, closed, sent, rxAlive, responses, store,
                 pendingWrites, locals, ops, store0, ioFault, generations>>

\* Mutant of Encrypt: the key is the digest of the buffer being encrypted,
\* which by then may have been compressed.
EncryptKeyedByBuffer(w) ==
  /\ pc[w] = "encrypt"
  /\ sg' = [sg EXCEPT ![w] =
              IF should_encrypt(input[w].data_type)
              THEN encrypt(@, calculate_digest(@)) ELSE @]
  /\ pc' = [pc EXCEPT ![w] = "write"]
  /\ UNCHANGED <<queue, closed, sent, rxAlive, responses, store,
                 pendingWrites, input, digest, found, scanIdx, chunk_path,
                 fatal, ops, store0, ioFault, generations>>

\* encrypt the buffer, keyed by the digest, iff data_type.should_encrypt().
Encrypt(w) ==
  /\ pc[w] = "encrypt"
  /\ sg' = [sg EXCEPT ![w] =
              IF should_encrypt(input[w].data_type)
              THEN encrypt(@, digest[w]) ELSE @]
  /\ pc' = [pc EXCEPT ![w] = "write"]
  /\ UNCHANGED <<queue, closed, sent, rxAlive, responses, store,
                 pendingWrites, input, digest, found, scanIdx, chunk_path,
                 fatal, ops, store0, ioFault, generations>>

\* encrypt(sg, digest) returns Err: unwrap() panics.
EncryptFail(w) ==
  /\ pc[w] = "encrypt"
  /\ should_encrypt(input[w].data_type)
  /\ pc' = [pc EXCEPT ![w] = "panic"]
  /\ fatal' = [fatal EXCEPT ![w] = "encrypt"]
  /\ UNCHANGED <<queue, closed, sent, rxAlive, responses, store,
                 pendingWrites, locals, ops, store0, ioFault, generations>>

\* Mutant of Write: the branch ends without handing the buffer to the backend.
WriteSkipped(w) ==
  /\ pc[w] = "write"
  /\ pc' = [pc EXCEPT ![w] = "respond"]
  /\ UNCHANGED <<queue, closed, sent, rxAlive, responses, store, pendingWrites,
                 locals, fatal, ops, store0, ioFault, generations>>

\* self.aio.write_checked_idempotent(path, sg); the write is handed to the
\* backend and its result handle is dropped without wait().
Write(w) ==
  /\ pc[w] = "write"
  /\ pendingWrites' = pendingWrites \cup
       {[msg |-> Msg(w), path |-> write_path(digest[w]), sg |-> sg[w]]}
  /\ ops' = [ops EXCEPT ![Msg(w)].writes = @ + 1]
  /\ pc' = [pc EXCEPT ![w] = "respond"]
  /\ UNCHANGED <<queue, closed, sent, rxAlive, responses, store, locals,
                 fatal, store0, ioFault, generations>>

\* Mutant of Respond: a response is held back until the Messages submitted
\* before it have been answered.
RespondInOrder(w) ==
  /\ pc[w] = "respond"
  /\ rxAlive[input[w].response_tx]
  /\ \A c \in 1..(input[w].response_tx - 1) : responses[c] # <<>>
  /\ responses' = [responses EXCEPT ![input[w].response_tx] =
                     Append(@, Response(w))]
  /\ pc' = [pc EXCEPT ![w] = "rx"]
  /\ input' = [input EXCEPT ![w] = NoMsg]
  /\ digest' = [digest EXCEPT ![w] = NoDigest]
  /\ found' = [found EXCEPT ![w] = FALSE]
  /\ scanIdx' = [scanIdx EXCEPT ![w] = 0]
  /\ chunk_path' = [chunk_path EXCEPT ![w] = NoPath]
  /\ sg' = [sg EXCEPT ![w] = RawSG(0)]
  /\ UNCHANGED <<queue, closed, sent, rxAlive, store, pendingWrites, fatal,
                 ops, store0, ioFault, generations>>

\* response_tx.send((sg_id, digest)) succeeds; the loop starts over.
Respond(w) ==
  /\ pc[w] = "respond"
  /\ rxAlive[input[w].response_tx]
  /\ responses' = [responses EXCEPT ![input[w].response_tx] =
                     Append(@, Response(w))]
  /\ pc' = [pc EXCEPT ![w] = "rx"]
  /\ input' = [input EXCEPT ![w] = NoMsg]
  /\ digest' = [digest EXCEPT ![w] = NoDigest]
  /\ found' = [found EXCEPT ![w] = FALSE]
  /\ scanIdx' = [scanIdx EXCEPT ![w] = 0]
  /\ chunk_path' = [chunk_path EXCEPT ![w] = NoPath]
  /\ sg' = [sg EXCEPT ![w] = RawSG(0)]
  /\ UNCHANGED <<queue, closed, sent, rxAlive, store, pendingWrites, fatal,
                 ops, store0, ioFault, generations>>

\* Mutant of RespondFail: the error of send is dropped and the loop goes on.
RespondFailSwallowed(w) ==
  /\ pc[w] = "respond"
  /\ ~rxAlive[input[w].response_tx]
  /\ pc' = [pc EXCEPT ![w] = "rx"]
  /\ input' = [input EXCEPT ![w] = NoMsg]
  /\ digest' = [digest EXCEPT ![w] = NoDigest]
  /\ found' = [found EXCEPT ![w] = FALSE]
  /\ scanIdx' = [scanIdx EXCEPT ![w] = 0]
  /\ chunk_path' = [chunk_path EXCEPT ![w] = NoPath]
  /\ sg' = [sg EXCEPT ![w] = RawSG(0)]
  /\ UNCHANGED <<queue, closed, sent, rxAlive, responses, store, pendingWrites,
                 fatal, ops, store0, ioFault, generations>>

\* response_tx.send fails, the receiver being gone: expect() panics.
RespondFail(w) ==
  /\ pc[w] = "respond"
  /\ ~rxAlive[input[w].response_tx]
  /\ pc' = [pc EXCEPT ![w] = "panic"]
  /\ fatal' = [fatal EXCEPT ![w] = "send"]
  /\ UNCHANGED <<queue, closed, sent, rxAlive, responses, store,
                 pendingWrites, locals, ops, store0, ioFault, generations>>

\* --------------------------------------------------------------- I/O backend
\* The backend performs one of the writes handed to it.
AioWrite(job) ==
  /\ job \in pendingWrites
  /\ store' = WriteEffect(store, job.path, job.sg)
  /\ pendingWrites' = pendingWrites \ {job}
  /\ ops' = [ops EXCEPT ![job.msg].written = @ + 1]
  /\ UNCHANGED <<queue, closed, sent, rxAlive, responses, pc, locals, fatal,
                 store0, ioFault, generations>>

\* ------------------------------------------------------------ specifications
WorkerStep(w) ==
  \/ New(w)
  \/ RunStart(w)
  \/ Recv(w)
  \/ RecvClosed(w)
  \/ Probe(w)
  \/ Rename(w)
  \/ Recheck(w)
  \/ Compress(w)
  \/ Encrypt(w)
  \/ Write(w)
  \/ Respond(w)

WorkerFault(w) ==
  \/ RenameFault(w)
  \/ CompressFail(w)
  \/ EncryptFail(w)
  \/ RespondFail(w)

Backend == \E job \in pendingWrites : AioWrite(job)

Producer ==
  \/ \E p \in Payloads, dt \in DataTypes : Send(p, dt)
  \/ CloseQueue

Next ==
  \/ \E w \in Workers : WorkerStep(w)
  \/ \E w \in Workers : WorkerFault(w)
  \/ Backend
  \/ Producer
  \/ \E c \in Chans : DropReceiver(c)

Spec == Init /\ [][Next]_vars

\* Normal operation: the collaborators do not fail, the receivers stay, every
\* worker thread and the backend keep running.
NextNormal ==
  \/ \E w \in Workers : WorkerStep(w)
  \/ Backend
  \/ Producer

Fairness ==
  /\ \A w \in Workers : WF_vars(WorkerStep(w))
  /\ WF_vars(Backend)

\* A run whose caller configured at least one generation.
InitNormal == Init /\ Len(generations) >= 1

SpecNormal == InitNormal /\ [][NextNormal]_vars /\ Fairness

\* ------------------------------------------------------------------ claims
SentMsgs == 1..Len(sent)

Answered(i) == responses[i] # <<>>

RawDigest(i) == calculate_digest(sent[i].sg)

CurrentPath(d) == chunk_path_by_digest(d, last_gen_str)

OlderGens == GenStrs \ {last_gen_str}

InOlder(st, d) == \E g \in OlderGens : Exists(st, chunk_path_by_digest(d, g))

OnlyInCurrent(d) == Exists(store, CurrentPath(d)) /\ ~InOlder(store, d)

WritesDone(i) == ops[i].written = ops[i].writes

SamePayload(i, j) == i # j /\ sent[i].sg = sent[j].sg

C2_Migration ==
  \A i \in SentMsgs :
    (Answered(i) /\ InOlder(store0, RawDigest(i))) =>
       /\ OnlyInCurrent(RawDigest(i))
       /\ Cardinality({c \in store : c.path.digest = RawDigest(i)}) = 1
       /\ ops[i].writes = 0
       /\ responses[i][1][2] = RawDigest(i)

\* A request found its chunk in an older generation, renamed it, and was
\* answered.
C2_Witness ==
  \E i \in SentMsgs :
    /\ Answered(i) /\ InOlder(store0, RawDigest(i))
    /\ ops[i].scan = "older" /\ ops[i].renameOk = 1

\* The requests whose chunk was found in an older generation.
Migrators(d) ==
  {i \in SentMsgs : RawDigest(i) = d /\ ops[i].scan = "older"}

RenamesOk(d) == {i \in Migrators(d) : ops[i].renameOk = 1}

RenamesFailed(d) ==
  {i \in Migrators(d) : ops[i].renames = 1 /\ ops[i].renameOk = 0}

RawDigests == {calculate_digest(RawSG(p)) : p \in Payloads}

\* C3: as long as the storage itself does not fail, of the workers that
\* found the same digest in an older generation at most one renames it with
\* success, and exactly one once any of them has called rename; every worker
\* whose rename failed finds the destination on its recheck and none panics
\* with "rename failed"; it goes on to answer; and from the first rename on
\* the only copy of the chunk is in the current generation.
C3_MigrationRace ==
  ~ioFault =>
    /\ \A w \in Workers : fatal[w] # "rename failed"
    /\ \A d \in RawDigests :
         /\ Cardinality(RenamesOk(d)) <= 1
         /\ (\E i \in Migrators(d) : ops[i].renames > 0) =>
              /\ Cardinality(RenamesOk(d)) = 1
              /\ OnlyInCurrent(d)
              /\ Cardinality({c \in store : c.path.digest = d}) = 1
         /\ \A i \in RenamesFailed(d) :
              /\ ops[i].recheck # "err"
              /\ ops[i].recheck = "ok" =>
                   \/ Answered(i)
                   \/ \E w \in Workers :
                        Msg(w) = i /\ (pc[w] = "respond" \/ fatal[w] = "send")

\* Two workers raced to migrate one chunk: one rename succeeded, the other
\* failed and its recheck found the destination, and both were answered.
C3_Witness ==
  /\ ~ioFault
  /\ \E d \in RawDigests :
       /\ Cardinality(RenamesOk(d)) = 1
       /\ \E i \in RenamesFailed(d) : ops[i].recheck = "ok"
       /\ \A i \in Migrators(d) : Answered(i)

\* C4: in normal operation every Message a worker has dequeued is eventually
\* answered; a channel never carries more than one response, and the
\* response on a Message's channel holds that Message's sequence id and the
\* hash of its payload as it was submitted.
C4_ResponseTotality ==
  /\ [](\A c \in Chans :
          /\ Len(responses[c]) <= 1
          /\ Answered(c) =>
               /\ c \in SentMsgs
               /\ sent[c].response_tx = c
               /\ ops[c].recvs = 1
               /\ responses[c][1] = <<sent[c].sg_id, RawDigest(c)>>)
  /\ \A c \in Chans : (ops[c].recvs > 0) ~> (Len(responses[c]) = 1)

\* One Message answered on the write path, compressed and encrypted, and
\* another answered on the migrate path.
C4_Witness ==
  \E i \in SentMsgs, j \in SentMsgs :
    /\ Answered(i) /\ ops[i].scan = "missing" /\ ops[i].writes = 1
    /\ should_compress(sent[i].data_type) /\ should_encrypt(sent[i].data_type)
    /\ Answered(j) /\ ops[j].scan = "older" /\ ops[j].renameOk = 1

\* A response is sent on channel c in this step.
Sends(c) == Len(responses'[c]) > Len(responses[c])

WritePending(c) == \E job \in pendingWrites : job.msg = c

InHand(w) ==
  /\ pc[w] \notin {"new", "run", "rx", "done"}
  /\ fatal[w] \notin {"assert", "unwrap"}

\* What each position of run() implies about the request in hand: the digest
\* is computed before the scan, nothing is renamed or written before the scan
\* has ended, and the response comes last.
C5_Position(w) ==
  LET m == Msg(w)
  IN /\ InHand(w) = (input[w] # NoMsg)
     /\ InHand(w) =>
          /\ m \in SentMsgs /\ input[w] = sent[m]
          /\ digest[w] = RawDigest(m)
          /\ ~Answered(m)
     /\ pc[w] = "scan" =>
          ops[m].scan = "none" /\ ops[m].renames = 0 /\ ops[m].writes = 0
     /\ pc[w] = "rename" =>
          ops[m].scan = "older" /\ ops[m].renames = 0 /\ ops[m].writes = 0
     /\ pc[w] = "recheck" =>
          /\ ops[m].scan = "older" /\ ops[m].renames = 1
          /\ ops[m].renameOk = 0 /\ ops[m].recheck = "none"
          /\ ops[m].writes = 0
     /\ pc[w] \in {"compress", "encrypt", "write"} =>
          ops[m].scan = "missing" /\ ops[m].renames = 0 /\ ops[m].writes = 0
     /\ pc[w] = "respond" =>
          /\ ops[m].scan \in {"current", "older", "missing"}
          /\ ops[m].scan = "missing" => (ops[m].writes = 1 /\ ops[m].renames = 0)
          /\ ops[m].scan = "older" =>
               /\ ops[m].renames = 1 /\ ops[m].writes = 0
               /\ ops[m].renameOk = 1 \/ ops[m].recheck = "ok"
          /\ ops[m].scan = "current" => (ops[m].renames = 0 /\ ops[m].writes = 0)

StaysStopped(w) ==
  pc[w] = "panic" =>
    /\ pc'[w] = "panic"
    /\ fatal'[w] = fatal[w]
    /\ input'[w] = input[w]
    /\ input[w] # NoMsg => responses'[Msg(w)] = responses[Msg(w)]

\* C6: a failed rename leads to the recheck of the destination. If the
\* destination exists the worker goes on to send the response and the request
\* has issued no write; if it does not exist the worker panics with "rename
\* failed": no response for that Message, no write, no second rename, and the
\* worker never leaves that state, so it dequeues nothing more.
C6_FailedRename ==
  /\ [](\A w \in Workers :
          fatal[w] = "rename failed" =>
            /\ pc[w] = "panic"
            /\ ops[Msg(w)].recheck = "err"
            /\ ops[Msg(w)].renames = 1 /\ ops[Msg(w)].renameOk = 0
            /\ ops[Msg(w)].writes = 0 /\ ~WritePending(Msg(w))
            /\ ops[Msg(w)].recvs = 1
            /\ ~Answered(Msg(w)))
  /\ [](\A c \in SentMsgs :
          ops[c].recheck = "ok" =>
            /\ ops[c].scan = "older"
            /\ ops[c].renames = 1 /\ ops[c].renameOk = 0
            /\ ops[c].writes = 0 /\ ~WritePending(c))
  /\ [][\A w \in Workers :
          /\ (pc[w] = "rename" /\ pc'[w] # "rename") =>
               IF ops'[Msg(w)].renameOk = 1
               THEN pc'[w] = "respond"
               ELSE pc'[w] = "recheck" /\ store' = store
          /\ (pc[w] = "recheck" /\ pc'[w] # "recheck") =>
               /\ store' = store /\ pendingWrites' = pendingWrites
               /\ IF Exists(store, CurrentPath(digest[w]))
                  THEN pc'[w] = "respond" /\ found'[w] /\ fatal'[w] = "none"
                  ELSE pc'[w] = "panic" /\ fatal'[w] = "rename failed"
          /\ StaysStopped(w)]_vars

\* A rename failed, the destination was absent on the recheck, and the worker
\* is stopped while a Message is still waiting in the queue.
C6_Witness ==
  \E w \in Workers :
    /\ fatal[w] = "rename failed"
    /\ ops[Msg(w)].recheck = "err"
    /\ Exists(store, chunk_path[w])
    /\ queue # <<>>

TransformFatal == {"compress", "encrypt"}

\* C7: a worker that a failed compression or encryption has stopped had
\* found the chunk in no generation and has issued no write and no rename
\* for the Message, and has sent no response for it; the failing step itself
\* leaves the store and the backend's pending writes as they were, and the
\* worker stays stopped.
C7_TransformFailure ==
  /\ [](\A w \in Workers :
          fatal[w] \in TransformFatal =>
            /\ pc[w] = "panic"
            /\ ops[Msg(w)].scan = "missing"
            /\ ops[Msg(w)].writes = 0 /\ ops[Msg(w)].written = 0
            /\ ~WritePending(Msg(w))
            /\ ops[Msg(w)].renames = 0
            /\ ~Answered(Msg(w)))
  /\ [][\A w \in Workers :
          /\ (fatal[w] = "none" /\ fatal'[w] \in TransformFatal) =>
               /\ store' = store
               /\ pendingWrites' = pendingWrites
               /\ responses' = responses
          /\ StaysStopped(w)]_vars

\* An encryption failed after the compression had been applied: the worker
\* is stopped holding the partially transformed buffer, and the store has no
\* chunk for the digest.
C7_Witness ==
  \E w \in Workers :
    /\ fatal[w] = "encrypt"
    /\ sg[w] = compress(input[w].sg)
    /\ \A c \in store : c.path.digest # digest[w]
    /\ pendingWrites = {}

\* C8 as stated: a failed send is fatal for the request in hand only; the
\* worker that suffered it is not stopped and goes on to serve the other
\* Messages.
C8_Original ==
  \A w \in Workers : ~(pc[w] = "panic" /\ fatal[w] = "send")

\* C8 (amended): a send to a channel whose receiver is gone is not swallowed:
\* the worker panics. That is fatal for the worker: it has sent no response
\* for the Message, it stays stopped and dequeues nothing more.
C8_SendFailure ==
  /\ [](\A w \in Workers :
          fatal[w] = "send" =>
            /\ pc[w] = "panic"
            /\ ~rxAlive[Msg(w)]
            /\ ~Answered(Msg(w)))
  /\ [][\A w \in Workers :
          /\ (pc[w] = "respond" /\ pc'[w] # "respond") =>
               IF rxAlive[Msg(w)]
               THEN pc'[w] = "rx" /\ Sends(Msg(w))
               ELSE pc'[w] = "panic" /\ fatal'[w] = "send"
                    /\ responses' = responses
          /\ StaysStopped(w)]_vars

\* A worker is stopped by a failed send while a Message waits in the queue.
C8_Witness ==
  \E w \in Workers :
    /\ fatal[w] = "send"
    /\ queue # <<>>

\* C9: in normal operation a worker leaves the loop only from the receive,
\* with the queue closed and empty; no Message is dequeued twice and no two
\* workers hold the same Message; once the queue is closed, eventually every
\* Message that was enqueued has been dequeued once and answered and every
\* worker has returned, none of them by a panic.
C9_CleanShutdown ==
  /\ [][\A w \in Workers :
          (pc[w] # "done" /\ pc'[w] = "done") =>
             (pc[w] = "rx" /\ closed /\ queue = <<>>)]_vars
  /\ [](/\ \A c \in Chans : ops[c].recvs <= 1
        /\ \A w \in Workers : fatal[w] = "none" /\ pc[w] # "panic"
        /\ \A w \in Workers, v \in Workers :
             (w # v /\ input[w] # NoMsg) => input[w] # input[v])
  /\ closed ~>
       (/\ \A w \in Workers : pc[w] = "done"
        /\ \A c \in SentMsgs : ops[c].recvs = 1 /\ Answered(c))

\* The queue was closed after MaxMsgs Messages; all were answered and every
\* worker has returned.
C9_Witness ==
  /\ closed
  /\ Len(sent) = MaxMsgs
  /\ \A c \in SentMsgs : ops[c].recvs = 1 /\ Answered(c)
  /\ \A w \in Workers : pc[w] = "done"

\* C10: every write handed to the backend targets the current generation,
\* and no step creates or replaces a chunk anywhere else: a chunk that is in
\* an older generation after a step was there before it.
C10_CurrentOnly ==
  /\ [](\A job \in pendingWrites : job.path.gen = last_gen_str)
  /\ [][\A c \in store' : c.path.gen # last_gen_str => c \in store]_vars

\* A rename and a write have both created a chunk, both in the current
\* generation.
C10_Witness ==
  \E i \in SentMsgs, j \in SentMsgs :
    /\ ops[i].renameOk = 1 /\ Exists(store, CurrentPath(RawDigest(i)))
    /\ ops[j].scan = "missing" /\ ops[j].written = 1
    /\ Exists(store, CurrentPath(RawDigest(j)))

\* C11: no order is imposed between the responses of different requests:
\* whenever two workers both stand at the send of their response, each for
\* its own Message and with its receiver alive, either send can be the next
\* step, whichever Message was submitted first.
C11_NoCompletionOrder ==
  \A w \in Workers, v \in Workers :
    (/\ w # v
     /\ pc[w] = "respond" /\ pc[v] = "respond"
     /\ rxAlive[Msg(w)] /\ rxAlive[Msg(v)]) =>
       /\ Msg(w) # Msg(v)
       /\ ENABLED Respond(w)
       /\ ENABLED Respond(v)

\* Two requests with different content: the one submitted second has been
\* answered while the one submitted first, dequeued by another worker, is
\* still about to be answered.
C11_Witness ==
  \E i \in SentMsgs, j \in SentMsgs, w \in Workers :
    /\ sent[i].sg_id < sent[j].sg_id
    /\ sent[i].sg # sent[j].sg
    /\ Answered(j) /\ ~Answered(i)
    /\ Msg(w) = i /\ pc[w] = "respond" /\ rxAlive[i]

\* C12: with an empty generation list every worker is stopped by the
\* assertion of the constructor: it never gets to run(), holds no Message and
\* touches nothing; a worker that is in run(), or was stopped there, has a
\* list of at least one generation, whose last element is the current one.
C12_NonEmptyGenerations ==
  \A w \in Workers :
    /\ Len(generations) = 0 =>
         /\ pc[w] \in {"new", "panic"}
         /\ pc[w] = "panic" => fatal[w] = "assert"
         /\ input[w] = NoMsg
         /\ store = store0 /\ pendingWrites = {}
    /\ (pc[w] # "new" /\ fatal[w] # "assert") =>
         /\ Len(generations) >= 1
         /\ last_gen_str # None
         /\ last_gen_str = <<"gen", generations[Len(generations)]>>
         /\ fatal[w] # "unwrap"
    /\ fatal[w] = "assert" => (pc[w] = "panic" /\ Len(generations) = 0)

\* The list is empty: every worker was stopped in the constructor while a
\* Message waits in the queue.
C12_Witness ==
  /\ Len(generations) = 0
  /\ \A w \in Workers : pc[w] = "panic" /\ fatal[w] = "assert"
  /\ queue # <<>>

\* C13: the scan goes newest to oldest and then to the current generation
\* once more and stops at the first hit; a request whose chunk was stored in
\* some generation when its scan started is never classified as new and no
\* write is issued for it, whatever the other workers do meanwhile.
C13_ScanNeverMisses ==
  /\ \A c \in Chans :
       ops[c].stored => (ops[c].scan # "missing" /\ ops[c].writes = 0)
  /\ \A w \in Workers :
       /\ pc[w] = "scan" =>
            /\ scanIdx[w] \in 1..(Len(gen_strings) + 1)
            /\ ~found[w]
            /\ \A j \in 1..(scanIdx[w] - 1) :
                 /\ ScanOrder[j] = gen_strings[Len(gen_strings) + 1 - j]
                 /\ ScanOrder[j] # last_gen_str =>
                      ~Exists(store, chunk_path_by_digest(digest[w], ScanOrder[j]))
       /\ (pc[w] \in {"rename", "recheck", "respond"} /\ found[w]) =>
            /\ chunk_path[w] = chunk_path_by_digest(digest[w], ScanOrder[scanIdx[w]])
            /\ ops[Msg(w)].scan \in {"current", "older"}
       /\ pc[w] \in {"compress", "encrypt", "write"} =>
            (~found[w] /\ scanIdx[w] = Len(gen_strings) + 1)

\* The chunk was in an older generation when the scan started, another worker
\* migrated it during the scan, and the second look at the current
\* generation found it.
C13_Witness ==
  \E w \in Workers :
    /\ pc[w] = "respond" /\ found[w]
    /\ Len(gen_strings) >= 2
    /\ scanIdx[w] = Len(gen_strings) + 1
    /\ InOlder(store0, digest[w])
    /\ ops[Msg(w)].stored /\ ops[Msg(w)].scan = "current"
    /\ \E c \in Chans : c # Msg(w) /\ ops[c].renameOk = 1

\* The storage part of the request on channel c is over: its worker is at
\* the sending of the response, or past it.
StorageDone(c) ==
  \/ Answered(c)
  \/ \E w \in Workers :
       /\ Msg(w) = c
       /\ pc[w] = "respond" \/ (pc[w] = "panic" /\ fatal[w] = "send")

\* The step issues a rename, or a write, for the request on channel c.
IssuesRename(c) == ops'[c].renames > ops[c].renames

IssuesWrite(c) == ops'[c].writes > ops[c].writes

C14_Counts ==
  \A c \in Chans :
    /\ ops[c].renames + ops[c].writes <= 1
    /\ ops[c].scan \in {"none", "current"} =>
         /\ ops[c].renames = 0 /\ ops[c].writes = 0
         /\ ~WritePending(c)
    /\ ops[c].scan = "older" =>
         /\ ops[c].writes = 0
         /\ StorageDone(c) => ops[c].renames = 1
    /\ ops[c].scan = "missing" =>
         /\ ops[c].renames = 0
         /\ StorageDone(c) => ops[c].writes = 1
    /\ StorageDone(c) => ops[c].scan \in {"current", "older", "missing"}

C14_Steps ==
  /\ \A w \in Workers :
       LET c == Msg(w) IN
       (input[w] # NoMsg /\ pc[w] # "panic") =>
         /\ IssuesRename(c) =>
              /\ ops[c].scan = "older"
              /\ chunk_path[w].gen \in OlderGens
              /\ \/ store' = store
                 \/ store' = RenameEffect(store, chunk_path[w],
                                          CurrentPath(digest[w]))
         /\ IssuesWrite(c) =>
              /\ ops[c].scan = "missing"
              /\ store' = store
              /\ \E job \in pendingWrites' \ pendingWrites :
                   job.msg = c /\ job.path = CurrentPath(digest[w])
         /\ (ops[c].scan = "current" /\ pc'[w] # pc[w]) => store' = store
  /\ store' # store =>
       \E c \in Chans :
         \/ ops[c].scan = "older" /\ ops'[c].renameOk > ops[c].renameOk
         \/ ops[c].scan = "missing" /\ ops'[c].written > ops[c].written

\* C14: a request found in the current generation issues no rename and no
\* write and no step of it changes the store; one found in an older
\* generation issues exactly one rename, to the current generation, and no
\* write; one found in no generation issues exactly one write, to the current
\* generation, and no rename. The counts are those of a request whose worker
\* got as far as sending the response.
C14_OneStorageAction == []C14_Counts /\ [][C14_Steps]_vars

\* One answered request was migrated by its one rename, another one was new
\* and its one write has been performed.
C14_Witness ==
  \E i \in SentMsgs, j \in SentMsgs :
    /\ Answered(i) /\ Answered(j)
    /\ ops[i].scan = "older" /\ ops[i].renames = 1 /\ ops[i].renameOk = 1
    /\ ops[j].scan = "missing" /\ ops[j].writes = 1 /\ ops[j].written = 1

\* The buffer the request m is to store: the payload, compressed first iff
\* the data type asks for it, then encrypted under the digest of the raw
\* payload iff the data type asks for it.
ExpectedLayers(m) ==
  (IF m.data_type.compress THEN << <<"z">> >> ELSE <<>>)
    \o (IF m.data_type.encrypt
        THEN << <<"enc", <<"sha", m.sg.data, <<>> >> >> >> ELSE <<>>)

ExpectedBuffer(m) == [data |-> m.sg.data, layers |-> ExpectedLayers(m)]

\* The chunks that were not in the store when the workers started.
NewChunks == {ch \in store : ~StoredSomewhere(store0, ch.path.digest)}

\* C15: the buffer handed to the write of a new chunk, under (digest, current
\* generation), is the raw payload compressed first iff should_compress() and
\* encrypted second iff should_encrypt(), keyed by the digest of the raw
\* payload, and unchanged when neither holds; a new chunk of the store holds
\* the buffer of a request of that digest whose write was performed.
C15_StoredContent ==
  /\ \A w \in Workers :
       pc[w] \in {"compress", "encrypt", "write"} => sg[w].data = input[w].sg.data
  /\ \A job \in pendingWrites :
       /\ job.sg = ExpectedBuffer(sent[job.msg])
       /\ job.path = CurrentPath(RawDigest(job.msg))
       /\ ~(sent[job.msg].data_type.compress \/ sent[job.msg].data_type.encrypt)
            => job.sg = sent[job.msg].sg
  /\ \A ch \in NewChunks :
       /\ ch.path.gen = last_gen_str
       /\ \E i \in SentMsgs :
            /\ ops[i].written = 1
            /\ ch.path.digest = RawDigest(i)
            /\ ch.sg = ExpectedBuffer(sent[i])

\* A new chunk was written compressed and then encrypted, another one raw.
C15_Witness ==
  \E i \in SentMsgs, j \in SentMsgs :
    /\ ops[i].written = 1 /\ ops[j].written = 1
    /\ sent[i].data_type.compress /\ sent[i].data_type.encrypt
    /\ ~sent[j].data_type.compress /\ ~sent[j].data_type.encrypt
    /\ [path |-> CurrentPath(RawDigest(i)),
        sg |-> [data |-> sent[i].sg.data,
                layers |-> << <<"z">>, <<"enc", RawDigest(i)>> >>]] \in NewChunks
    /\ [path |-> CurrentPath(RawDigest(j)), sg |-> sent[j].sg] \in NewChunks

\* The workers that hold the Message of channel c.
Holders(c) == {w \in Workers : input[w] # NoMsg /\ Msg(w) = c}

C16_Accounted ==
  /\ \A c \in Chans :
       /\ ops[c].recvs <= 1
       /\ Len(responses[c]) <= 1
       /\ ops[c].recvs = 0 => (~Answered(c) /\ Holders(c) = {})
       /\ ops[c].recvs = 1 =>
            IF Answered(c) THEN Holders(c) = {}
            ELSE \E w \in Workers :
                   /\ Holders(c) = {w}
                   /\ pc[w] \notin {"new", "run", "rx", "done"}
                   /\ pc[w] = "panic" => fatal[w] \notin {"none", "assert", "unwrap"}
  /\ \A w \in Workers :
       pc[w] \in {"new", "run", "rx", "done"} => input[w] = NoMsg

C16_Steps ==
  \A w \in Workers :
    /\ (input[w] # NoMsg /\ input'[w] # input[w]) =>
         /\ input'[w] = NoMsg
         /\ pc[w] = "respond" /\ pc'[w] = "rx"
         /\ responses'[Msg(w)] = <<Response(w)>>
    /\ (input[w] = NoMsg /\ input'[w] # NoMsg) =>
         /\ pc[w] = "rx"
         /\ ops[Msg(w)'].recvs = 0
    /\ pc[w] = "panic" => (pc'[w] = "panic" /\ input'[w] = input[w])

\* C16: a worker lets go of the Message it dequeued only by sending its one
\* response, and dequeues the next one only after that; a received Message is
\* at every moment either answered exactly once or in the hands of its one
\* worker, which is processing it or was stopped by a panic while doing so.
C16_NoSilentDrop == []C16_Accounted /\ [][C16_Steps]_vars

\* One worker alone (the other has not started) answered a Message and has
\* dequeued the next one.
C16_Witness ==
  \E w \in Workers, i \in SentMsgs, j \in SentMsgs :
    /\ i # j
    /\ \A v \in Workers \ {w} : pc[v] = "new"
    /\ Len(responses[i]) = 1 /\ ops[i].recvs = 1
    /\ Holders(j) = {w} /\ pc[w] = "scan"

\* The generations of the list in which a chunk of the digest is stored.
GensOf(st, d) == {g \in GenStrs : Exists(st, chunk_path_by_digest(d, g))}

StoredDigests(st) == {ch.path.digest : ch \in st}

SingleCopy(st) ==
  /\ \A d \in StoredDigests(st) : Cardinality(GensOf(st, d)) = 1
  /\ \A a \in st, b \in st : a.path = b.path => a = b

C17_Store ==
  /\ SingleCopy(store0)
  /\ SingleCopy(store)
  /\ \A job \in pendingWrites :
       /\ job.path.gen = last_gen_str
       /\ ~InOlder(store, job.path.digest)

C17_Steps ==
  \A c \in Chans :
    (ops'[c].written > ops[c].written /\ store' # store) =>
      /\ ~InOlder(store, RawDigest(c))
      /\ ~InOlder(store', RawDigest(c))
      /\ GensOf(store', RawDigest(c)) = {last_gen_str}

\* C17: starting from a store with every digest in at most one generation,
\* every digest is in at most one generation in every reachable state; no
\* write is pending for, or lands on, a digest of which an older generation
\* holds a copy.
C17_SingleCopy == []C17_Store /\ [][C17_Steps]_vars

\* With two generations: one chunk was migrated by a rename and another one
\* was created by a write.
C17_Witness ==
  /\ Len(generations) >= 2
  /\ \E i \in Chans, j \in Chans :
       /\ ops[i].renameOk = 1
       /\ ops[j].written = 1 /\ Exists(store, CurrentPath(RawDigest(j)))
       /\ RawDigest(j) \notin StoredDigests(store0)
       /\ Cardinality(StoredDigests(store)) = 2

C18_Kept ==
  /\ \A ch \in store : ch.path.gen \in GenStrs
  /\ StoredDigests(store0) \subseteq StoredDigests(store)

C18_Steps ==
  \A ch \in store :
    \E kept \in store' :
      /\ kept.path.digest = ch.path.digest
      /\ kept.path.gen \in GenStrs
      /\ kept.sg = ch.sg

\* C18: no step of a worker or of the backend removes a chunk: a digest that
\* is stored in some generation of the list is stored in some generation of
\* the list, with the same content, after every step, be it a scan, a
\* successful or failed rename, or a write.
C18_NoLoss == []C18_Kept /\ [][C18_Steps]_vars

\* Two workers raced on the migration of one chunk: the rename of one moved
\* it, the rename of the other failed and found it at the destination.
C18_Witness ==
  \E i \in Chans, j \in Chans :
    /\ ops[i].renames = 1 /\ ops[i].renameOk = 1
    /\ ops[j].renames = 1 /\ ops[j].renameOk = 0 /\ ops[j].recheck = "ok"
    /\ RawDigest(i) = RawDigest(j)
    /\ RawDigest(i) \in StoredDigests(store0)
    /\ Exists(store, CurrentPath(RawDigest(i)))

====
